---------------------------- MODULE Spec2Model ----------------------------
(***************************************************************************)
(* Model of balanced_recipe_book.py: ingredient matching by token overlap, *)
(* macro-ratio balance scoring, the ranking pipeline score_recipes and the *)
(* command-line driver main.                                               *)
(*                                                                         *)
(* A phrase (a normalized ingredient string) is the sequence of its        *)
(* whitespace-separated tokens.  A Python float is a binary64 value        *)
(* [neg, m, e] standing for (-1)^neg * m * 2^e, and every float operation  *)
(* of the program (true division, +, -, *, abs, comparisons, the :.2f      *)
(* format) is computed as binary64 computes it: the exact result rounded   *)
(* to 53 bits, ties to even.  Exact fractions [n, d] appear only where a   *)
(* property compares a float with the exact value of a formula.            *)
(***************************************************************************)
EXTENDS Integers, Sequences, FiniteSets

VARIABLES pc, ingredient, pantry, result, recipes, matches,
          argv, args, stdin, terminal, file, stdout, stderr, status, prompts, trail

vars == <<pc, ingredient, pantry, result, recipes, matches,
          argv, args, stdin, terminal, file, stdout, stderr, status, prompts, trail>>

mainVars == <<argv, args, stdin, terminal, file,
              stdout, stderr, status, prompts, trail>>

-----------------------------------------------------------------------------
(* Bounds of the model *)

MaxTokens == 3

MaxRecipes == 3

MaxGrams == 15

-----------------------------------------------------------------------------
(* Exact fractions, for the exact value of a formula *)

RECURSIVE GCD(_, _)
GCD(a, b) == IF b = 0 THEN a ELSE GCD(b, a % b)

\* The fraction n/d (d > 0) in lowest terms.
Rat(n, d) ==
    LET g == GCD(IF n < 0 THEN -n ELSE n, d)
    IN [n |-> n \div g, d |-> d \div g]

RatLE(a, b) == a.n * b.d <= b.n * a.d

RatLT(a, b) == a.n * b.d < b.n * a.d

RatAdd(a, b) == Rat(a.n * b.d + b.n * a.d, a.d * b.d)

RatSub(a, b) == Rat(a.n * b.d - b.n * a.d, a.d * b.d)

RatMul(a, b) == Rat(a.n * b.n, a.d * b.d)

RatDiv(a, b) == IF b.n > 0 THEN Rat(a.n * b.d, a.d * b.n)
                           ELSE Rat(-(a.n * b.d), a.d * (-b.n))

RatAbs(a) == IF a.n < 0 THEN Rat(-a.n, a.d) ELSE a

RatMax(a, b) == IF RatLT(a, b) THEN b ELSE a

RatMin(a, b) == IF RatLT(b, a) THEN b ELSE a

Zero == Rat(0, 1)

One == Rat(1, 1)

Min(a, b) == IF a <= b THEN a ELSE b

Max(a, b) == IF a >= b THEN a ELSE b

-----------------------------------------------------------------------------
(* Natural numbers of any size: little-endian sequences of limbs           *)

LimbBits == 15

Base == 32768

Limb(a, i) == IF i <= Len(a) THEN a[i] ELSE 0

Zeros(n) == [i \in 1..n |-> 0]

Reverse(a) == [i \in 1..Len(a) |-> a[Len(a) + 1 - i]]

\* a without its most significant zero limbs
Trim(a) ==
    SubSeq(a, 1, Cardinality({i \in 1..Len(a) : \E j \in i..Len(a) : a[j] # 0}))

RECURSIVE ToBig(_)
ToBig(n) == IF n = 0 THEN <<>> ELSE <<n % Base>> \o ToBig(n \div Base)

RECURSIVE AddFrom(_, _, _, _)
AddFrom(a, b, i, carry) ==
    IF i > Len(a) /\ i > Len(b)
      THEN IF carry = 0 THEN <<>> ELSE <<carry>>
      ELSE <<(Limb(a, i) + Limb(b, i) + carry) % Base>>
           \o AddFrom(a, b, i + 1, (Limb(a, i) + Limb(b, i) + carry) \div Base)

BigAdd(a, b) == AddFrom(a, b, 1, 0)

RECURSIVE SubFrom(_, _, _, _)
SubFrom(a, b, i, borrow) ==
    IF i > Len(a) THEN <<>>
    ELSE <<(a[i] - Limb(b, i) - borrow + Base) % Base>>
         \o SubFrom(a, b, i + 1, IF a[i] - Limb(b, i) - borrow < 0 THEN 1 ELSE 0)

\* a - b for a >= b
BigSub(a, b) == Trim(SubFrom(a, b, 1, 0))

\* -1, 0, 1 as a <, =, > b
BigCmp(a, b) ==
    IF Len(a) # Len(b) THEN (IF Len(a) < Len(b) THEN -1 ELSE 1)
    ELSE IF a = b THEN 0
    ELSE IF a[CHOOSE i \in 1..Len(a) : a[i] # b[i] /\ \A j \in (i + 1)..Len(a) : a[j] = b[j]]
            < b[CHOOSE i \in 1..Len(a) : a[i] # b[i] /\ \A j \in (i + 1)..Len(a) : a[j] = b[j]]
         THEN -1 ELSE 1

RECURSIVE MulSmallFrom(_, _, _, _)
MulSmallFrom(a, k, i, carry) ==
    IF i > Len(a)
      THEN IF carry = 0 THEN <<>> ELSE <<carry>>
      ELSE <<(a[i] * k + carry) % Base>>
           \o MulSmallFrom(a, k, i + 1, (a[i] * k + carry) \div Base)

\* a * k for 0 <= k < Base
BigMulSmall(a, k) == IF k = 0 THEN <<>> ELSE MulSmallFrom(a, k, 1, 0)

RECURSIVE MulFrom(_, _, _)
MulFrom(a, b, i) ==
    IF i > Len(b) THEN <<>>
    ELSE BigAdd(IF b[i] = 0 THEN <<>> ELSE Zeros(i - 1) \o BigMulSmall(a, b[i]),
                MulFrom(a, b, i + 1))

BigMul(a, b) == IF a = <<>> \/ b = <<>> THEN <<>> ELSE MulFrom(a, b, 1)

RECURSIVE Pow2(_)
Pow2(n) == IF n = 0 THEN 1 ELSE 2 * Pow2(n - 1)

RECURSIVE SmallBitLen(_)
SmallBitLen(n) == IF n = 0 THEN 0 ELSE 1 + SmallBitLen(n \div 2)

BitLen(a) == IF a = <<>> THEN 0 ELSE LimbBits * (Len(a) - 1) + SmallBitLen(a[Len(a)])

\* a * 2^n
ShiftLeft(a, n) ==
    IF a = <<>> THEN a
    ELSE Zeros(n \div LimbBits) \o BigMulSmall(a, Pow2(n % LimbBits))

\* Long division, most significant limb first.  The result lists the
\* quotient limbs from the most significant down, then the remainder.
RECURSIVE DivSmallFrom(_, _, _, _)
DivSmallFrom(a, k, i, rem) ==
    IF i = 0 THEN <<rem>>
    ELSE <<(rem * Base + a[i]) \div k>> \o DivSmallFrom(a, k, i - 1, (rem * Base + a[i]) % k)

Quotient(digits) == Trim(Reverse(SubSeq(digits, 1, Len(digits) - 1)))

\* quotient of a by k, 0 < k < Base, and whether the division leaves a remainder
DivSmallResult(digits) == [q |-> Quotient(digits), inexact |-> digits[Len(digits)] # 0]

BigDivSmall(a, k) == DivSmallResult(DivSmallFrom(a, k, Len(a), 0))

\* One quotient limb of rem by d, for rem < d * Base and the top limb of d
\* at least Base / 2: estimated from the top limbs, then corrected downwards.
RECURSIVE FixDigit(_, _, _, _)
FixDigit(rem, d, q, p) ==
    IF BigCmp(p, rem) = 1 THEN FixDigit(rem, d, q - 1, BigMulSmall(d, q - 1))
    ELSE [q |-> q, r |-> BigSub(rem, p)]

Estimate(rem, d) ==
    Min(Base - 1, (Limb(rem, Len(d) + 1) * Base + Limb(rem, Len(d))) \div d[Len(d)])

DivDigitAt(rem, d, est) == FixDigit(rem, d, est, BigMulSmall(d, est))

DivDigit(rem, d) == DivDigitAt(rem, d, Estimate(rem, d))

RECURSIVE DivBigFrom(_, _, _, _)
DivBigNext(a, d, i, step) == <<step.q>> \o DivBigFrom(a, d, i - 1, step.r)

DivBigFrom(a, d, i, rem) ==
    IF i = 0 THEN <<rem>>
    ELSE DivBigNext(a, d, i, DivDigit(Trim(<<a[i]>> \o rem), d))

DivBigResult(digits) == [q |-> Quotient(digits), inexact |-> digits[Len(digits)] # <<>>]

DivScaled(a, d) ==
    IF Len(a) < Len(d) THEN [q |-> <<>>, inexact |-> a # <<>>]
    ELSE DivBigResult(DivBigFrom(a, d, Len(a) - Len(d) + 1,
                                 Trim(SubSeq(a, Len(a) - Len(d) + 2, Len(a)))))

\* quotient of a by d > 0, and whether the division leaves a remainder
BigDiv(a, d) ==
    IF Len(d) = 1 THEN BigDivSmall(a, d[1])
    ELSE DivScaled(ShiftLeft(a, LimbBits - SmallBitLen(d[Len(d)])),
                   ShiftLeft(d, LimbBits - SmallBitLen(d[Len(d)])))

\* floor(a / 2^n), and whether a nonzero bit was shifted out
ShiftedRight(a, w, d) ==
    [q |-> d.q, inexact |-> d.inexact \/ \E i \in 1..Min(w, Len(a)) : a[i] # 0]

ShiftRight(a, n) ==
    ShiftedRight(a, n \div LimbBits,
                 BigDivSmall(SubSeq(a, n \div LimbBits + 1, Len(a)), Pow2(n % LimbBits)))

RECURSIVE SmallTrailingZeros(_)
SmallTrailingZeros(n) == IF n % 2 = 1 THEN 0 ELSE 1 + SmallTrailingZeros(n \div 2)

\* number of trailing zero bits of a # 0
TrailingZeros(a) ==
    LimbBits * Cardinality({i \in 1..Len(a) : \A j \in 1..i : a[j] = 0})
    + SmallTrailingZeros(a[1 + Cardinality({i \in 1..Len(a) : \A j \in 1..i : a[j] = 0})])

-----------------------------------------------------------------------------
(* Python floats: binary64 values, every operation rounded to nearest,     *)
(* ties to even                                                            *)

\* A finite binary64 value is [neg, m, e], standing for (-1)^neg * m * 2^e
\* with m odd and below 2^53; zero is m = <<>>, e = 0.
Precision == 53

FZero == [neg |-> FALSE, m |-> <<>>, e |-> 0]

Canonical(neg, m, e) ==
    IF m = <<>> THEN FZero
    ELSE [neg |-> neg, m |-> ShiftRight(m, TrailingZeros(m)).q, e |-> e + TrailingZeros(m)]

\* round to nearest, ties to the even mantissa: hi is the value shifted to
\* 53 bits, half the value shifted to 54 bits
RoundUp(hi, half, inexact) ==
    /\ Limb(half.q, 1) % 2 = 1
    /\ half.inexact \/ inexact \/ Limb(hi.q, 1) % 2 = 1

RoundDrop(neg, inexact, e, drop, hi, half) ==
    Canonical(neg, IF RoundUp(hi, half, inexact) THEN BigAdd(hi.q, <<1>>) ELSE hi.q, e + drop)

RoundLen(neg, m, inexact, e, len) ==
    IF len <= Precision THEN Canonical(neg, m, e)
    ELSE RoundDrop(neg, inexact, e, len - Precision,
                   ShiftRight(m, len - Precision), ShiftRight(m, len - Precision - 1))

\* the binary64 nearest to (-1)^neg * (m + f) * 2^e, where 0 <= f < 1 and
\* inexact tells whether f is nonzero
RoundTo53(neg, m, inexact, e) == RoundLen(neg, m, inexact, e, BitLen(m))

FromInt(n) == IF n < 0 THEN Canonical(TRUE, ToBig(-n), 0) ELSE Canonical(FALSE, ToBig(n), 0)

FNeg(x) == IF x.m = <<>> THEN x ELSE [x EXCEPT !.neg = ~x.neg]

FAbs(x) == [x EXCEPT !.neg = FALSE]

AddAligned(x, y, e, a, b) ==
    IF x.neg = y.neg THEN RoundTo53(x.neg, BigAdd(a, b), FALSE, e)
    ELSE IF BigCmp(a, b) = 0 THEN FZero
    ELSE IF BigCmp(a, b) = 1 THEN RoundTo53(x.neg, BigSub(a, b), FALSE, e)
    ELSE RoundTo53(y.neg, BigSub(b, a), FALSE, e)

FAdd(x, y) ==
    IF x.m = <<>> THEN y
    ELSE IF y.m = <<>> THEN x
    ELSE AddAligned(x, y, Min(x.e, y.e),
                    ShiftLeft(x.m, x.e - Min(x.e, y.e)),
                    ShiftLeft(y.m, y.e - Min(x.e, y.e)))

FSub(x, y) == FAdd(x, FNeg(y))

FMul(x, y) == RoundTo53(x.neg # y.neg, BigMul(x.m, y.m), FALSE, x.e + y.e)

DivRound(neg, d, e) == RoundTo53(neg, d.q, d.inexact, e)

DivShifted(x, y, s) == DivRound(x.neg # y.neg, BigDiv(ShiftLeft(x.m, s), y.m), x.e - y.e - s)

FDiv(x, y) ==
    IF x.m = <<>> THEN FZero
    ELSE DivShifted(x, y, Precision + 2 + BitLen(y.m) - Min(BitLen(x.m), BitLen(y.m)))

CmpAligned(neg, a, b) == IF neg THEN BigCmp(b, a) ELSE BigCmp(a, b)

\* -1, 0, 1 as x <, =, > y
FCmp(x, y) ==
    IF x = y THEN 0
    ELSE IF x.m = <<>> THEN (IF y.neg THEN 1 ELSE -1)
    ELSE IF y.m = <<>> THEN (IF x.neg THEN -1 ELSE 1)
    ELSE IF x.neg # y.neg THEN (IF x.neg THEN -1 ELSE 1)
    ELSE CmpAligned(x.neg, ShiftLeft(x.m, x.e - Min(x.e, y.e)),
                    ShiftLeft(y.m, y.e - Min(x.e, y.e)))

FLE(x, y) == FCmp(x, y) <= 0

FLT(x, y) == FCmp(x, y) < 0

FMax(x, y) == IF FLT(x, y) THEN y ELSE x

FMin(x, y) == IF FLT(y, x) THEN y ELSE x

\* The float written p/q in decimal (0.4 is Float(4, 10)) and the true
\* division p / q of two ints: the binary64 nearest to the fraction.
Float(p, q) == FDiv(FromInt(p), FromInt(q))

FOne == FromInt(1)

\* The number of hundredths that the format :.2f prints for a float x >= 0:
\* the exact binary value rounded to two decimals, ties to even.
HundredthsRounded(hi, half) ==
    IF RoundUp(hi, half, FALSE) THEN BigAdd(hi.q, <<1>>) ELSE hi.q

HundredthsOf(n, e) ==
    IF e >= 0 THEN ShiftLeft(n, e)
    ELSE HundredthsRounded(ShiftRight(n, -e), ShiftRight(n, -e - 1))

ToInt(a) == Limb(a, 1) + Base * Limb(a, 2)

format_2f(x) == ToInt(HundredthsOf(BigMulSmall(x.m, 100), x.e))

-----------------------------------------------------------------------------
(* Tokens and phrases *)

Token == {"red", "bell", "pepper", "egg", "eggplant"}

Phrases(n) == UNION {[1..k -> Token] : k \in 0..n}

\* Pantry entries offered to the matcher: the empty string, one-token
\* entries, entries with a repeated token, two- and three-token entries.
PantryItems ==
    { <<>>,
      <<"eggplant">>,
      <<"egg", "egg">>,
      <<"bell", "pepper">>,
      <<"pepper", "egg">>,
      <<"red", "bell", "egg">> }

\* tokenize(phrase) = set(phrase.split())
tokenize(phrase) == {phrase[i] : i \in 1..Len(phrase)}

CoverageThreshold_half == Float(5, 10)

\* The literal 0.6 of coverage >= 0.6
CoverageThreshold == Float(6, 10)

ingredient_matches_max(ingr, pantry_) ==
    LET ingredient_tokens == tokenize(ingr) IN
    /\ ingredient_tokens # {}
    /\ \E item \in pantry_ :
         LET item_tokens == tokenize(item)
             overlap == Cardinality(ingredient_tokens \cap item_tokens)
         IN /\ item_tokens # {}
            /\ overlap # 0
            /\ FLE(CoverageThreshold,
                   Float(overlap, Max(Cardinality(ingredient_tokens),
                                      Cardinality(item_tokens))))

ingredient_matches_all(ingr, pantry_) ==
    LET ingredient_tokens == tokenize(ingr) IN
    /\ ingredient_tokens # {}
    /\ pantry_ # {}
    /\ \A item \in pantry_ :
         LET item_tokens == tokenize(item)
             overlap == Cardinality(ingredient_tokens \cap item_tokens)
         IN /\ item_tokens # {}
            /\ overlap # 0
            /\ FLE(CoverageThreshold,
                   Float(overlap, Min(Cardinality(ingredient_tokens),
                                      Cardinality(item_tokens))))

\* The loop over the pantry returns True at the first item that passes the
\* three tests and False when none does, so the result is the existence of
\* such an item whatever the iteration order of the set.  coverage is the
\* float overlap / min(len, len), compared with the float 0.6.
ingredient_matches(ingr, pantry_) ==
    LET ingredient_tokens == tokenize(ingr) IN
    /\ ingredient_tokens # {}
    /\ \E item \in pantry_ :
         LET item_tokens == tokenize(item)
             overlap == Cardinality(ingredient_tokens \cap item_tokens)
         IN /\ item_tokens # {}
            /\ overlap # 0
            /\ FLE(CoverageThreshold,
                   Float(overlap, Min(Cardinality(ingredient_tokens),
                                      Cardinality(item_tokens))))

-----------------------------------------------------------------------------
(* Raw text.  A raw string is the sequence of its whitespace-separated     *)
(* words as typed; a chunk (one command-line argument or one input line)   *)
(* is the sequence of the raw strings between its commas.                  *)

RawWords == {"Egg", "egg", "&", "Bell", "pepper!", "eggplant"}

\* What lower() and the isalnum/isspace filter leave of one raw word.
CleanWord ==
    [w \in RawWords |->
       CASE w = "Egg" -> "egg"
         [] w = "egg" -> "egg"
         [] w = "&" -> ""
         [] w = "Bell" -> "bell"
         [] w = "pepper!" -> "pepper"
         [] w = "eggplant" -> "eggplant"]

\* normalize_token: lower-case, drop the characters that are neither
\* alphanumeric nor whitespace, split on whitespace and join with one space.
\* A word that loses all its characters disappears.
normalize_token(value) ==
    LET cleaned == [i \in 1..Len(value) |-> CleanWord[value[i]]]
        Kept(w) == w # ""
    IN SelectSeq(cleaned, Kept)

\* The set of normalized, non-empty pieces of every chunk.
parse_ingredients(raw_inputs) ==
    UNION { { normalize_token(raw_inputs[c][t]) : t \in 1..Len(raw_inputs[c]) } :
            c \in 1..Len(raw_inputs) } \ {<<>>}

-----------------------------------------------------------------------------
(* Recipes: name, core_ingredients and supporting_ingredients (tuples of   *)
(* phrases, in declared order) and macros (a dict from macro names to      *)
(* grams, any key possibly absent).  The fields that only describe_recipe  *)
(* prints (servings, instructions, tags, notes) are left out.              *)

CAL_FACTORS == [carbs |-> 4, protein |-> 4, fat |-> 9]

TARGET_RATIOS == [carbs |-> Float(4, 10), protein |-> Float(3, 10), fat |-> Float(3, 10)]

RATIO_TOLERANCE == Float(1, 10)

MacroNames == DOMAIN TARGET_RATIOS

\* self.macros.get(macro, 0.0): a whole number of grams
grams(recipe, macro) ==
    IF macro \in DOMAIN recipe.macros THEN recipe.macros[macro] ELSE 0

\* calories += self.macros.get(macro, 0.0) * factor, over CAL_FACTORS: for
\* whole grams every product and every partial sum is an integer far below
\* 2^53, which binary64 holds exactly.
calories(recipe) ==
    grams(recipe, "carbs") * CAL_FACTORS["carbs"]
      + grams(recipe, "protein") * CAL_FACTORS["protein"]
      + grams(recipe, "fat") * CAL_FACTORS["fat"]

\* (grams * CAL_FACTORS[macro]) / calories, a float division; 0.0 for every
\* macro when calories <= 0
macro_ratios(recipe) ==
    [macro \in MacroNames |->
       IF calories(recipe) <= 0
         THEN FZero
         ELSE FDiv(FromInt(grams(recipe, macro) * CAL_FACTORS[macro]),
                   FromInt(calories(recipe)))]

\* abs(ratios.get(macro, 0.0) - TARGET_RATIOS[macro])
deviation(recipe, macro) ==
    FAbs(FSub(macro_ratios(recipe)[macro], TARGET_RATIOS[macro]))

\* One element of deltas: the deviation divided by RATIO_TOLERANCE
delta(recipe, macro) == FDiv(deviation(recipe, macro), RATIO_TOLERANCE)

\* sum(deltas): 0 + carbs + protein + fat, added from the left
sum_deltas(recipe) ==
    FAdd(FAdd(delta(recipe, "carbs"), delta(recipe, "protein")), delta(recipe, "fat"))

balance_score_mean_of_two(recipe) ==
    FMax(FZero, FMin(FOne, FSub(FOne, FDiv(sum_deltas(recipe), FromInt(2)))))

\* score = 1 - (sum(deltas) / len(TARGET_RATIOS)); max(0.0, min(1.0, score))
balance_score(recipe) ==
    FMax(FZero,
         FMin(FOne, FSub(FOne, FDiv(sum_deltas(recipe),
                                    FromInt(Cardinality(MacroNames))))))

\* all(abs(ratio - target) <= RATIO_TOLERANCE for macro in TARGET_RATIOS)
is_balanced(recipe) ==
    \A macro \in MacroNames : FLE(deviation(recipe, macro), RATIO_TOLERANCE)

\* sum(1 for ingredient in ingredients if ingredient_matches(ingredient, pantry))
hits(ingredients, pantry_) ==
    Cardinality({i \in 1..Len(ingredients) : ingredient_matches(ingredients[i], pantry_)})

\* The literals 0.75 and 0.25 of ingredient_score
CoreWeight == Float(75, 100)

SupportingWeight == Float(25, 100)

\* hits / len(ingredients), or 0.0 for an empty supporting list
hit_ratio(ingredients, pantry_) ==
    IF Len(ingredients) # 0
      THEN Float(hits(ingredients, pantry_), Len(ingredients))
      ELSE FZero

ingredient_score_no_core_guard(recipe, pantry_) ==
    FAdd(FMul(hit_ratio(recipe.core_ingredients, pantry_), CoreWeight),
         FMul(hit_ratio(recipe.supporting_ingredients, pantry_), SupportingWeight))

\* (core_ratio * 0.75) + (supporting_ratio * 0.25), 0.0 without core ingredients
ingredient_score(recipe, pantry_) ==
    IF Len(recipe.core_ingredients) = 0 THEN FZero
    ELSE FAdd(FMul(hit_ratio(recipe.core_ingredients, pantry_), CoreWeight),
              FMul(hit_ratio(recipe.supporting_ingredients, pantry_), SupportingWeight))

\* [ingredient for ingredient in ingredients if not ingredient_matches(...)]
unmatched(ingredients, pantry_) ==
    LET Miss(ingr) == ~ingredient_matches(ingr, pantry_)
    IN SelectSeq(ingredients, Miss)

missing(recipe, pantry_) ==
    <<unmatched(recipe.core_ingredients, pantry_),
      unmatched(recipe.supporting_ingredients, pantry_)>>

\* The literals 0.8 and 0.2 of score_recipes
CoverageWeight == Float(8, 10)

BalanceWeight == Float(2, 10)

\* score = (coverage * 0.8) + (balance * 0.2)
rank_score(recipe, pantry_) ==
    FAdd(FMul(ingredient_score(recipe, pantry_), CoverageWeight),
         FMul(balance_score(recipe), BalanceWeight))

\* The loop of score_recipes: one (score, recipe) pair per balanced recipe,
\* in input order.
RECURSIVE scored_pairs(_, _)
scored_pairs(recipes_, pantry_) ==
    IF recipes_ = <<>> THEN <<>>
    ELSE IF ~is_balanced(Head(recipes_)) THEN scored_pairs(Tail(recipes_), pantry_)
    ELSE <<[score |-> rank_score(Head(recipes_), pantry_), recipe |-> Head(recipes_)]>>
         \o scored_pairs(Tail(recipes_), pantry_)

place_after(sorted, pair, k) ==
    SubSeq(sorted, 1, k) \o <<pair>> \o SubSeq(sorted, k + 1, Len(sorted))

insert_desc_before_equal(sorted, pair) ==
    place_after(sorted, pair,
                Cardinality({i \in 1..Len(sorted) : FLT(pair.score, sorted[i].score)}))

\* One step of a stable descending sort: the pair goes after every pair whose
\* float score is greater than or equal to its own.
insert_desc(sorted, pair) ==
    place_after(sorted, pair,
                Cardinality({i \in 1..Len(sorted) : FLE(pair.score, sorted[i].score)}))

\* scored.sort(key=lambda item: item[0], reverse=True): list.sort is stable,
\* also with reverse=True (equal keys keep their original order).
RECURSIVE sort_desc(_)
sort_desc(scored) ==
    IF scored = <<>> THEN <<>>
    ELSE insert_desc(sort_desc(SubSeq(scored, 1, Len(scored) - 1)),
                     scored[Len(scored)])

RECURSIVE scored_pairs_matched_only(_, _)
scored_pairs_matched_only(recipes_, pantry_) ==
    IF recipes_ = <<>> THEN <<>>
    ELSE IF ~is_balanced(Head(recipes_)) \/ ingredient_score(Head(recipes_), pantry_) = FZero
      THEN scored_pairs_matched_only(Tail(recipes_), pantry_)
    ELSE <<[score |-> rank_score(Head(recipes_), pantry_), recipe |-> Head(recipes_)]>>
         \o scored_pairs_matched_only(Tail(recipes_), pantry_)

score_recipes_matched_only(recipes_, pantry_) ==
    sort_desc(scored_pairs_matched_only(recipes_, pantry_))

score_recipes(recipes_, pantry_) == sort_desc(scored_pairs(recipes_, pantry_))

\* norm_list: normalize every item and drop the ones that come out empty.
norm_list(items) ==
    LET normalized == [i \in 1..Len(items) |-> normalize_token(items[i])]
        Kept(item) == item # <<>>
    IN SelectSeq(normalized, Kept)

\* Recipe.from_dict, for the fields the model keeps.
from_dict(data) ==
    [name |-> data.name,
     core_ingredients |-> norm_list(data.core_ingredients),
     supporting_ingredients |-> norm_list(data.supporting_ingredients),
     macros |-> data.macros]

\* [Recipe.from_dict(entry) for entry in raw]
load_recipes(raw) == [i \in 1..Len(raw) |-> from_dict(raw[i])]

\* What describe_recipe reports of a recipe: its name and, with
\* --show-missing, the missing core and supporting ingredients.
describe_recipe(recipe, pantry_, show_missing) ==
    [name |-> recipe.name,
     missing |-> IF show_missing THEN missing(recipe, pantry_) ELSE <<>>]

limit_no_floor(top) == top

\* limit = max(1, args.top)
limit(top) == Max(1, top)

-----------------------------------------------------------------------------
(* Values of the variables a specification does not use *)

\* Standard input at end of file: input() raises EOFError.
EndOfInput == [eof |-> TRUE, line |-> <<>>]

\* The empty command line
NoArgv == [ingredients |-> <<>>, recipes_exists |-> FALSE, top |-> 1,
           top_is_int |-> TRUE, show_missing |-> FALSE, interactive |-> FALSE,
           help |-> "absent", unknown |-> FALSE]

NoArgs == [ingredients |-> <<>>, recipes_exists |-> FALSE, top |-> 1,
           show_missing |-> FALSE, interactive |-> FALSE]

MainIdle ==
    /\ argv = NoArgv
    /\ args = NoArgs
    /\ stdin = EndOfInput
    /\ terminal = FALSE
    /\ file = <<>>
    /\ stdout = <<>>
    /\ stderr = <<>>
    /\ status = "none"
    /\ prompts = 0
    /\ trail = <<>>

-----------------------------------------------------------------------------
(* SpecMatch: ingredient_matches applied to every phrase of at most        *)
(* MaxTokens tokens and every pantry drawn from PantryItems                *)

MatchInit ==
    /\ pc = "call"
    /\ ingredient \in Phrases(MaxTokens)
    /\ pantry \in SUBSET PantryItems
    /\ result = "none"
    /\ recipes = <<>>
    /\ matches = <<>>
    /\ MainIdle

Match ==
    /\ pc = "call"
    /\ result' = ingredient_matches(ingredient, pantry)
    /\ pc' = "done"
    /\ UNCHANGED <<ingredient, pantry, recipes, matches, mainVars>>

MatchNext == Match

SpecMatch == MatchInit /\ [][MatchNext]_vars

\* C3: ingredient_matches is true iff the ingredient's token set A is
\* non-empty and some pantry item with token set B has |A \cap B| >= 1 and
\* |A \cap B| / min(|A|, |B|) >= 0.6 (5 * |A \cap B| >= 3 * min); an
\* ingredient without tokens never matches, and a one-token ingredient
\* matches a one-token pantry item only when the two tokens are equal.
C3_MatchIffCoverage ==
    pc = "done" =>
      LET A == {ingredient[i] : i \in DOMAIN ingredient} IN
      /\ result \in BOOLEAN
      /\ result <=>
           /\ A # {}
           /\ \E item \in pantry :
                LET B == {item[i] : i \in DOMAIN item}
                    o == Cardinality(A \cap B)
                    m == IF Cardinality(A) < Cardinality(B)
                           THEN Cardinality(A) ELSE Cardinality(B)
                IN o >= 1 /\ 5 * o >= 3 * m
      /\ (A = {} => result = FALSE)
      /\ \A item \in pantry :
           LET B == {item[i] : i \in DOMAIN item} IN
           (Cardinality(A) = 1 /\ Cardinality(B) = 1 /\ pantry = {item} /\ result = TRUE)
             => A = B
      /\ (ingredient = <<"egg">> /\ pantry = {<<"eggplant">>} => result = FALSE)
      /\ (ingredient = <<"red", "bell", "pepper">> /\ pantry = {<<"bell", "pepper">>}
            => result = TRUE)

\* The matcher has run on a three-token ingredient that matches a three-token
\* pantry entry through two shared tokens (coverage 2/3).
C3_Witness ==
    /\ pc = "done"
    /\ ingredient = <<"red", "bell", "pepper">>
    /\ pantry = {<<"red", "bell", "egg">>, <<"eggplant">>}
    /\ result = TRUE

\* C8 as stated: some ingredient with at least two tokens and some pantry
\* item with at least two tokens share exactly one token and match.
C8_SingleSharedTokenMatches ==
    pc = "done" =>
    \E ingr \in Phrases(MaxTokens), item \in Phrases(MaxTokens) :
       /\ Cardinality(tokenize(ingr)) >= 2
       /\ Cardinality(tokenize(item)) >= 2
       /\ Cardinality(tokenize(ingr) \cap tokenize(item)) = 1
       /\ ingredient_matches(ingr, {item})

\* C8 amended: a single shared token yields a match only when the ingredient
\* or the pantry entry has exactly one token (coverage 1/1).  An ingredient
\* of at least two tokens never matches a pantry whose entries all have at
\* least two tokens and share at most one token with it (coverage <= 1/2),
\* and it does match as soon as a one-token entry is one of its tokens.
C8_SingleSharedTokenNeedsOneTokenSide ==
    pc = "done" =>
      LET A == {ingredient[i] : i \in DOMAIN ingredient} IN
      /\ ( /\ Cardinality(A) >= 2
           /\ \A item \in pantry :
                LET B == {item[i] : i \in DOMAIN item} IN
                Cardinality(B) >= 2 /\ Cardinality(A \cap B) <= 1 )
         => result = FALSE
      /\ ( /\ A # {}
           /\ \E item \in pantry :
                LET B == {item[i] : i \in DOMAIN item} IN
                Cardinality(A \cap B) = 1
                  /\ (Cardinality(A) = 1 \/ Cardinality(B) = 1) )
         => result = TRUE

\* The matcher has run on a three-token ingredient and a two-token pantry
\* entry that share exactly one token, and has answered no.
C8_Witness ==
    /\ pc = "done"
    /\ ingredient = <<"red", "bell", "pepper">>
    /\ pantry = {<<"pepper", "egg">>}
    /\ result = FALSE


-----------------------------------------------------------------------------
(* Recipe collections for the ranking pipeline                             *)

\* (core_ingredients, supporting_ingredients): two core and two supporting
\* ingredients, no core ingredient, one multi-token core ingredient only.
IngredientLists ==
    { [core |-> << <<"egg">>, <<"pepper">> >>,
       supporting |-> << <<"eggplant">>, <<"bell">> >>],
      [core |-> <<>>, supporting |-> << <<"egg">> >>],
      [core |-> << <<"red", "bell", "pepper">> >>, supporting |-> <<>>] }

\* The recipes a collection is drawn from.  The first two have the same
\* ingredients and the same exact balance (0.6) with different grams, so
\* their float scores differ in the last place; the third has no core
\* ingredient and ratios 0.5/0.2/0.3, a deviation of exactly one tenth that
\* the float comparison accepts; the fourth has ratios 0.3/0.4/0.3, a
\* deviation of exactly one tenth that the float comparison rejects; the
\* fifth is on target (0.4/0.3/0.3); the last has carbs only, the other
\* keys absent (ratio 1.0).
RankRecipes ==
    { [lists |-> [core |-> << <<"egg">>, <<"pepper">> >>,
                  supporting |-> << <<"eggplant">>, <<"bell">> >>],
       macros |-> [carbs |-> 11, protein |-> 9, fat |-> 5]],
      [lists |-> [core |-> << <<"egg">>, <<"pepper">> >>,
                  supporting |-> << <<"eggplant">>, <<"bell">> >>],
       macros |-> [carbs |-> 5, protein |-> 3, fat |-> 2]],
      [lists |-> [core |-> <<>>, supporting |-> << <<"egg">> >>],
       macros |-> [carbs |-> 15, protein |-> 6, fat |-> 4]],
      [lists |-> [core |-> << <<"red", "bell", "pepper">> >>, supporting |-> <<>>],
       macros |-> [carbs |-> 9, protein |-> 12, fat |-> 4]],
      [lists |-> [core |-> << <<"red", "bell", "pepper">> >>, supporting |-> <<>>],
       macros |-> [carbs |-> 12, protein |-> 9, fat |-> 4]],
      [lists |-> [core |-> << <<"egg">>, <<"pepper">> >>,
                  supporting |-> << <<"eggplant">>, <<"bell">> >>],
       macros |-> [carbs |-> 100]] }

RankPantryItems == { <<"egg">>, <<"pepper">>, <<"eggplant">> }

RankPantries ==
    { {}, {<<"egg">>}, {<<"pepper">>, <<"eggplant">>}, RankPantryItems }

\* The recipe at position i of a collection; its name tells the positions apart.
MakeRecipe(i, lists, macros) ==
    [name |-> i, core_ingredients |-> lists.core,
     supporting_ingredients |-> lists.supporting, macros |-> macros]

Collections(n) ==
    UNION { { [i \in 1..k |-> MakeRecipe(i, rs[i].lists, rs[i].macros)] :
                rs \in [1..k -> RankRecipes] }
            : k \in 0..n }

-----------------------------------------------------------------------------
(* SpecRank: ingredient_score and score_recipes applied to every collection *)
(* of at most MaxRecipes recipes and every pantry of RankPantries           *)

RankInit ==
    /\ pc = "call"
    /\ recipes \in Collections(MaxRecipes)
    /\ pantry \in RankPantries
    /\ ingredient = <<>>
    /\ result = "none"
    /\ matches = <<>>
    /\ MainIdle

\* matches = score_recipes(recipes, pantry); result keeps the coverage that
\* the loop computes for each recipe (recipe.ingredient_score(pantry)).
Rank ==
    /\ pc = "call"
    /\ result' = [i \in 1..Len(recipes) |-> ingredient_score(recipes[i], pantry)]
    /\ matches' = score_recipes(recipes, pantry)
    /\ pc' = "scored"
    /\ UNCHANGED <<ingredient, pantry, recipes, mainVars>>

RankNext == Rank

SpecRank == RankInit /\ [][RankNext]_vars

\* Every macro's calorie ratio lies within one tenth of its target, computed
\* in integers: calories > 0 and |10 * macro calories - 10 * target * calories|
\* <= calories (with calories <= 0 the ratios are 0 and no macro is within).
ExactlyWithinTenth(recipe) ==
    LET g(m) == IF m \in DOMAIN recipe.macros THEN recipe.macros[m] ELSE 0
        total == 4 * g("carbs") + 4 * g("protein") + 9 * g("fat")
        off(x) == IF x < 0 THEN -x ELSE x
    IN /\ total > 0
       /\ off(10 * 4 * g("carbs") - 4 * total) <= total
       /\ off(10 * 4 * g("protein") - 3 * total) <= total
       /\ off(10 * 9 * g("fat") - 3 * total) <= total

\* The sign of x - r for a float x and an exact fraction r, both >= 0.
FCmpRat(x, r) ==
    BigCmp(ShiftLeft(BigMul(x.m, ToBig(r.d)), Max(x.e, 0)),
           ShiftLeft(ToBig(r.n), Max(-x.e, 0)))

NearAligned(a, b, t) ==
    IF BigCmp(a, b) >= 0 THEN BigCmp(BigSub(a, b), t) <= 0
    ELSE BigCmp(BigSub(b, a), t) <= 0

\* The float x >= 0 is the exact fraction r >= 0 up to accumulated rounding:
\* |x - r| <= 2^-45.
FNear(x, r) ==
    NearAligned(ShiftLeft(BigMul(x.m, ToBig(r.d)), x.e + Max(-x.e, 45)),
                ShiftLeft(ToBig(r.n), Max(-x.e, 45)),
                ShiftLeft(ToBig(r.d), Max(-x.e, 45) - 45))

\* C1: score_recipes returns exactly the input recipes that pass
\* is_balanced, each once per occurrence; no returned recipe has a macro
\* ratio further than 0.10 from its target, and no recipe that passes
\* is_balanced is left out, whatever its ingredient score.
C1_ReturnsExactlyBalanced ==
    pc = "scored" =>
      \A kept \in { {i \in 1..Len(recipes) : is_balanced(recipes[i])} } :
        /\ Len(matches) = Cardinality(kept)
        /\ {matches[j].recipe.name : j \in 1..Len(matches)} = kept
        /\ \A j \in 1..Len(matches) :
             /\ matches[j].recipe = recipes[matches[j].recipe.name]
             /\ ExactlyWithinTenth(matches[j].recipe)
        /\ \A i \in kept : \E j \in 1..Len(matches) : matches[j].recipe = recipes[i]

\* A collection has been ranked in which a balanced recipe without any
\* matching ingredient (no core ingredient, empty pantry) is returned and
\* an unbalanced one is dropped.
C1_Witness ==
    /\ pc = "scored"
    /\ Len(recipes) = 2
    /\ pantry = {}
    /\ recipes[1].macros = [carbs |-> 100]
    /\ recipes[2].macros = [carbs |-> 15, protein |-> 6, fat |-> 4]
    /\ result[2] = FZero
    /\ Len(matches) = 1
    /\ matches[1].recipe = recipes[2]

\* C2: the returned list is sorted by score in non-increasing order, and
\* returned recipes with equal scores keep their relative input order.
C2_SortedDescendingStable ==
    pc = "scored" =>
      \A j, k \in 1..Len(matches) :
        j < k =>
          /\ FLE(matches[k].score, matches[j].score)
          /\ (matches[j].score = matches[k].score
                => matches[j].recipe.name < matches[k].recipe.name)

\* A ranked collection of three recipes with the same ingredients and the
\* same exact score: the first, whose float score is one place lower, comes
\* last, and the two with equal float scores keep their input order.
C2_Witness ==
    /\ pc = "scored"
    /\ pantry = {}
    /\ Len(recipes) = 3
    /\ recipes[1].macros = [carbs |-> 11, protein |-> 9, fat |-> 5]
    /\ recipes[2].macros = [carbs |-> 5, protein |-> 3, fat |-> 2]
    /\ recipes[3].macros = [carbs |-> 5, protein |-> 3, fat |-> 2]
    /\ Len(matches) = 3
    /\ matches[1].recipe.name = 2
    /\ matches[2].recipe.name = 3
    /\ matches[3].recipe.name = 1
    /\ matches[1].score = matches[2].score
    /\ FLT(matches[3].score, matches[2].score)
    /\ FNear(matches[3].score, Rat(3, 25))
    /\ FNear(matches[1].score, Rat(3, 25))

\* C4: ingredient_score = 0.75 * (matched core / core) + 0.25 * (matched
\* supporting / supporting, 0 when there is no supporting ingredient), as
\* floats and hence equal to the exact value of the formula up to rounding;
\* it is 0 when there is no core ingredient, even if every supporting
\* ingredient matches; it lies in [0, 1]; core 2 of 2 and supporting 1 of 2
\* gives 0.875 exactly.
C4_IngredientScoreFormula ==
    pc = "scored" =>
      \A i \in 1..Len(recipes) :
        LET core == recipes[i].core_ingredients
            supp == recipes[i].supporting_ingredients
            Has(ingr) == ingredient_matches(ingr, pantry)
            ch == Len(SelectSeq(core, Has))
            sh == Len(SelectSeq(supp, Has))
            nc == Len(core)
            ns == Len(supp)
            s == result[i]
        IN /\ FLE(FZero, s) /\ FLE(s, FOne)
           /\ (nc = 0 => s = FZero)
           /\ (nc > 0 /\ ns = 0 =>
                 /\ s = FMul(Float(ch, nc), Float(3, 4))
                 /\ FNear(s, Rat(3 * ch, 4 * nc)))
           /\ (nc > 0 /\ ns > 0 =>
                 /\ s = FAdd(FMul(Float(ch, nc), Float(3, 4)),
                             FMul(Float(sh, ns), Float(1, 4)))
                 /\ FNear(s, Rat(3 * ch * ns + sh * nc, 4 * nc * ns)))
           /\ (nc = 2 /\ ch = 2 /\ ns = 2 /\ sh = 1 => s = Float(7, 8))

\* The coverage of two recipes has been computed: one with both core and one
\* of two supporting ingredients matched (0.875), one without core
\* ingredients whose only supporting ingredient matches (0).
C4_Witness ==
    /\ pc = "scored"
    /\ Len(recipes) = 2
    /\ pantry = {<<"egg">>, <<"pepper">>, <<"eggplant">>}
    /\ Len(recipes[1].core_ingredients) = 2
    /\ result[1] = Float(7, 8)
    /\ recipes[2].core_ingredients = <<>>
    /\ recipes[2].supporting_ingredients = << <<"egg">> >>
    /\ result[2] = FZero

-----------------------------------------------------------------------------
(* SpecPantry: the ranking of every collection of fewer than MaxRecipes    *)
(* recipes with every pantry drawn from RankPantryItems, to compare each   *)
(* pantry with the pantries it contains                                    *)

PantryInit ==
    /\ pc = "call"
    /\ recipes \in Collections(MaxRecipes - 1)
    /\ pantry \in SUBSET RankPantryItems
    /\ ingredient = <<>>
    /\ result = "none"
    /\ matches = <<>>
    /\ MainIdle

SpecPantry == PantryInit /\ [][RankNext]_vars

RECURSIVE IsSubsequence(_, _)
IsSubsequence(s, t) ==
    IF s = <<>> THEN TRUE
    ELSE IF t = <<>> THEN FALSE
    ELSE IF Head(s) = Head(t) THEN IsSubsequence(Tail(s), Tail(t))
    ELSE IsSubsequence(s, Tail(t))

\* C10: matching is monotone in the pantry.  For the ranked pantry Q and
\* every pantry P \subseteq Q: an ingredient that matches P matches Q; no
\* recipe's ingredient_score is lower with Q than with P; each list of
\* missing(r, Q) is a subsequence of the corresponding list of
\* missing(r, P); and every recipe that score_recipes returns for P is
\* returned for Q with a score at least as high.
C10_MonotoneInPantry ==
    pc = "scored" =>
      \A P \in SUBSET pantry :
        /\ \A i \in 1..Len(recipes) :
             \A r \in {recipes[i]} :
             \A missQ \in {missing(r, pantry)}, missP \in {missing(r, P)} :
                /\ \A x \in 1..Len(r.core_ingredients) :
                      ingredient_matches(r.core_ingredients[x], P)
                        => ingredient_matches(r.core_ingredients[x], pantry)
                /\ \A x \in 1..Len(r.supporting_ingredients) :
                      ingredient_matches(r.supporting_ingredients[x], P)
                        => ingredient_matches(r.supporting_ingredients[x], pantry)
                /\ FLE(ingredient_score(r, P), result[i])
                /\ IsSubsequence(missQ[1], missP[1])
                /\ IsSubsequence(missQ[2], missP[2])
                /\ IsSubsequence(missP[1], r.core_ingredients)
                /\ IsSubsequence(missP[2], r.supporting_ingredients)
        /\ \A before \in {score_recipes(recipes, P)} :
             \A j \in 1..Len(before) :
               \E k \in 1..Len(matches) :
                 /\ matches[k].recipe = before[j].recipe
                 /\ FLE(before[j].score, matches[k].score)

\* A recipe has been ranked with the full pantry: its coverage is 0.875
\* where the empty pantry gives 0, its score is higher than with the empty
\* pantry, and only one supporting ingredient is missing where the empty
\* pantry misses all four.
C10_Witness ==
    /\ pc = "scored"
    /\ pantry = RankPantryItems
    /\ Len(recipes) = 1
    /\ Len(matches) = 1
    /\ result[1] = Float(7, 8)
    /\ ingredient_score(recipes[1], {}) = FZero
    /\ FLT(score_recipes(recipes, {})[1].score, matches[1].score)
    /\ missing(recipes[1], pantry) = << <<>>, << <<"bell">> >> >>
    /\ missing(recipes[1], {}) =
         << << <<"egg">>, <<"pepper">> >>, << <<"eggplant">>, <<"bell">> >> >>

-----------------------------------------------------------------------------
(* SpecBalance: the balance gate and the balance score of one recipe, for   *)
(* every macros dict with grams in 0..MaxGrams (any key possibly absent)    *)
(* and some with negative grams                                             *)

NegativeMacroDicts ==
    { [carbs |-> -1],
      [carbs |-> -2, protein |-> 1, fat |-> 0],
      [carbs |-> 16, protein |-> 10, fat |-> -1] }

GramDicts(n) ==
    UNION {[keys -> 0..n] : keys \in SUBSET MacroNames} \cup NegativeMacroDicts

BalanceInit ==
    /\ pc = "call"
    /\ \E lists \in IngredientLists, macros \in GramDicts(MaxGrams) :
         recipes = <<MakeRecipe(1, lists, macros)>>
    /\ pantry \in {{}, RankPantryItems}
    /\ ingredient = <<>>
    /\ result = "none"
    /\ matches = <<>>
    /\ MainIdle

\* recipe.is_balanced(), recipe.balance_score() and score_recipes([recipe], pantry)
Balance ==
    /\ pc = "call"
    /\ result' = [balanced |-> is_balanced(recipes[1]),
                  balance |-> balance_score(recipes[1])]
    /\ matches' = score_recipes(recipes, pantry)
    /\ pc' = "done"
    /\ UNCHANGED <<ingredient, pantry, recipes, mainVars>>

BalanceNext == Balance

SpecBalance == BalanceInit /\ [][BalanceNext]_vars

\* The exact value of the balance formula: 1 - (sum of |ratio - target| /
\* 0.1) / 3 over the exact calorie ratios, clamped to [0, 1].
ExactBalanceScore(recipe) ==
    LET g(m) == IF m \in DOMAIN recipe.macros THEN recipe.macros[m] ELSE 0
        total == 4 * g("carbs") + 4 * g("protein") + 9 * g("fat")
        ratio(n) == IF total <= 0 THEN Zero ELSE Rat(n, total)
        off(n, target) == RatDiv(RatAbs(RatSub(ratio(n), target)), Rat(1, 10))
        sum == RatAdd(RatAdd(off(4 * g("carbs"), Rat(4, 10)),
                             off(4 * g("protein"), Rat(3, 10))),
                      off(9 * g("fat"), Rat(3, 10)))
    IN RatMax(Zero, RatMin(One, RatSub(One, RatDiv(sum, Rat(3, 1)))))

\* The exact value of the coverage formula, from the counts of matched
\* ingredients.
ExactIngredientScore(recipe, pantry_) ==
    LET Has(ingr) == ingredient_matches(ingr, pantry_)
        nc == Len(recipe.core_ingredients)
        ns == Len(recipe.supporting_ingredients)
        ch == Len(SelectSeq(recipe.core_ingredients, Has))
        sh == Len(SelectSeq(recipe.supporting_ingredients, Has))
    IN IF nc = 0 THEN Zero
       ELSE RatAdd(Rat(3 * ch, 4 * nc), IF ns = 0 THEN Zero ELSE Rat(sh, 4 * ns))

\* The exact value of 0.8 * ingredient_score + 0.2 * balance_score.
ExactRankScore(recipe, pantry_) ==
    RatAdd(RatMul(Rat(8, 10), ExactIngredientScore(recipe, pantry_)),
           RatMul(Rat(2, 10), ExactBalanceScore(recipe)))

\* C9: in exact arithmetic every macro ratio is within 0.10 of its target
\* iff the balance score is >= 1/3.  The float balance_score is that exact
\* value up to rounding, and the recipes the float is_balanced admits are
\* among those within 0.10, so every recipe score_recipes returns has an
\* exact balance score in [1/3, 1] and an exact rank score in [1/15, 1],
\* above 0 also when no ingredient matches; the floats the code computes
\* for it are those values up to rounding and lie in the same intervals.
C9_GateIsThresholdOnBalanceScore ==
    pc = "done" =>
      \A r \in {recipes[1]} :
      \A exact \in {ExactBalanceScore(r)} :
        /\ RatLE(Zero, exact) /\ RatLE(exact, One)
        /\ ExactlyWithinTenth(r) <=> RatLE(Rat(1, 3), exact)
        /\ FNear(result.balance, exact)
        /\ result.balanced => ExactlyWithinTenth(r)
        /\ Len(matches) = (IF result.balanced THEN 1 ELSE 0)
        /\ \A j \in 1..Len(matches) :
           \A rank \in {ExactRankScore(r, pantry)} :
             /\ RatLE(Rat(1, 3), exact)
             /\ RatLE(Rat(1, 15), rank) /\ RatLE(rank, One) /\ RatLT(Zero, rank)
             /\ FNear(matches[j].score, rank)
             /\ FCmpRat(result.balance, Rat(1, 3)) >= 0
             /\ FLE(result.balance, FOne)
             /\ FCmpRat(matches[j].score, Rat(1, 15)) >= 0
             /\ FLE(matches[j].score, FOne)
             /\ FLT(FZero, matches[j].score)

\* A recipe with ratios 0.5/0.2/0.3 has been evaluated: its exact balance
\* score is 1/3, the float gate admits it, and with no ingredient matched
\* its rank score is 1/15 up to rounding.
C9_Witness ==
    /\ pc = "done"
    /\ recipes[1].macros = [carbs |-> 15, protein |-> 6, fat |-> 4]
    /\ pantry = {}
    /\ result.balanced = TRUE
    /\ ExactBalanceScore(recipes[1]) = Rat(1, 3)
    /\ FNear(result.balance, Rat(1, 3))
    /\ Len(matches) = 1
    /\ ExactRankScore(recipes[1], pantry) = Rat(1, 15)
    /\ FNear(matches[1].score, Rat(1, 15))

-----------------------------------------------------------------------------
(* Spec: one run of main, from the command line to the exit status         *)

UsageExit == 2

EmptyResultExit == 1

SuccessExit == 0

\* The status of the exit that the help action of argparse makes
HelpExit == 0

\* args.ingredients: nothing; "&"; "Egg, pepper!"; "Egg" and "eggplant,"
CliIngredients ==
    { <<>>,
      << << <<"&">> >> >>,
      << << <<"Egg">>, <<"pepper!">> >> >>,
      << << <<"Egg">> >>, << <<"eggplant">>, <<>> >> >> }

\* Standard input: end of file; the line "&"; the line "egg, Bell pepper!"
StdinContents ==
    { EndOfInput,
      [eof |-> FALSE, line |-> << <<"&">> >>],
      [eof |-> FALSE, line |-> << <<"egg">>, <<"Bell", "pepper!">> >>] }

RawRecipe(name, core, supporting, macros) ==
    [name |-> name, core_ingredients |-> core,
     supporting_ingredients |-> supporting, macros |-> macros]

\* The JSON array of the recipe file: empty; unbalanced recipes only (one of
\* them at a deviation of exactly one tenth that binary64 rejects); one
\* balanced recipe after an unbalanced one; three balanced recipes with an
\* unbalanced one between them; two recipes with the same ingredients and
\* the same exact score, the float score of the second being the higher
\* unless the core ingredient is matched.
RecipeFiles ==
    { <<>>,
      << RawRecipe(1, << <<"Egg">> >>, <<>>, [carbs |-> 100]),
         RawRecipe(2, << <<"egg">> >>, <<>>, [carbs |-> 9, protein |-> 12, fat |-> 4]) >>,
      << RawRecipe(1, << <<"Egg">> >>, <<>>, [carbs |-> 100]),
         RawRecipe(2, << <<"Bell", "pepper!">>, <<"&">> >>, << <<"eggplant">> >>,
                   [carbs |-> 15, protein |-> 6, fat |-> 4]) >>,
      << RawRecipe(1, << <<"eggplant">> >>, <<>>, [carbs |-> 15, protein |-> 6, fat |-> 4]),
         RawRecipe(2, << <<"Egg">> >>, <<>>, [carbs |-> 100]),
         RawRecipe(3, << <<"Egg">>, <<"pepper!">> >>, << <<"eggplant">>, <<"Bell">> >>,
                   [carbs |-> 12, protein |-> 9, fat |-> 4]),
         RawRecipe(4, << <<"Bell">> >>, << <<"egg">> >>,
                   [carbs |-> 15, protein |-> 6, fat |-> 4]) >>,
      << RawRecipe(1, << <<"eggplant">> >>, << <<"Bell">> >>,
                   [carbs |-> 11, protein |-> 9, fat |-> 5]),
         RawRecipe(2, << <<"eggplant">> >>, << <<"Bell">> >>,
                   [carbs |-> 5, protein |-> 3, fat |-> 2]) >> }

TopValues == {-1, 0, 1, 2, 5}

\* The command lines of the model.  ingredients are the positional
\* arguments, recipes_exists tells whether the path given with --recipes (or
\* the default path) exists, top is the value given with --top when
\* top_is_int, and a text that int() rejects otherwise; help tells whether
\* -h/--help is absent, comes before every other argument or after them all;
\* unknown tells whether an option the parser does not know is present.
\* Every command line that parse_args accepts, and a few of each other kind.
CommandLines ==
    [ingredients : CliIngredients, recipes_exists : BOOLEAN, top : TopValues,
     top_is_int : {TRUE}, show_missing : BOOLEAN, interactive : BOOLEAN,
     help : {"absent"}, unknown : {FALSE}]
    \cup
    [ingredients : {<<>>, << << <<"Egg">>, <<"pepper!">> >> >>},
     recipes_exists : BOOLEAN, top : {2}, top_is_int : BOOLEAN,
     show_missing : {FALSE}, interactive : {FALSE},
     help : {"absent", "first", "last"}, unknown : BOOLEAN]

\* parser.parse_args(argv).  The help action prints the help text and exits
\* as soon as -h/--help is consumed; the value of --top is converted by int
\* when --top is consumed, and a value it rejects ends the run through
\* parser.error; an unknown option is reported through parser.error once
\* every argument has been consumed.
parse_args(argv_) ==
    IF argv_.help = "first" THEN "help"
    ELSE IF ~argv_.top_is_int THEN "error"
    ELSE IF argv_.help = "last" THEN "help"
    ELSE IF argv_.unknown THEN "error"
    ELSE "namespace"

\* The namespace that parse_args returns
namespace(argv_) ==
    [ingredients |-> argv_.ingredients, recipes_exists |-> argv_.recipes_exists,
     top |-> argv_.top, show_missing |-> argv_.show_missing,
     interactive |-> argv_.interactive]

Init ==
    /\ pc = "main"
    /\ argv \in CommandLines
    /\ args = NoArgs
    /\ stdin \in StdinContents
    /\ terminal \in BOOLEAN
    /\ file \in RecipeFiles
    /\ stdout = <<>>
    /\ stderr = <<>>
    /\ status = "none"
    /\ prompts = 0
    /\ trail = <<>>
    /\ pantry = {}
    /\ recipes = <<>>
    /\ matches = <<>>
    /\ ingredient = <<>>
    /\ result = "none"

\* args = parser.parse_args(argv): the namespace, or the exit of the help
\* action (help text on standard output, status 0), or the exit of
\* parser.error (usage message on standard error, status 2)
ParseArgs ==
    /\ pc = "main"
    /\ trail' = Append(trail, "parse_args")
    /\ CASE parse_args(argv) = "help" ->
              /\ stdout' = Append(stdout, [kind |-> "help"])
              /\ status' = HelpExit
              /\ pc' = "exit"
              /\ UNCHANGED <<args, stderr>>
         [] parse_args(argv) = "error" ->
              /\ stderr' = Append(stderr, "usage: invalid arguments")
              /\ status' = UsageExit
              /\ pc' = "exit"
              /\ UNCHANGED <<args, stdout>>
         [] OTHER ->
              /\ args' = namespace(argv)
              /\ pc' = "start"
              /\ UNCHANGED <<stdout, stderr, status>>
    /\ UNCHANGED <<ingredient, pantry, result, recipes, matches,
                   argv, stdin, terminal, file, prompts>>

\* pantry = parse_ingredients(args.ingredients); ensure_ingredients is called
\* if args.interactive or not pantry
ParseIngredients ==
    /\ pc = "start"
    /\ pantry' = parse_ingredients(args.ingredients)
    /\ pc' = IF args.interactive \/ pantry' = {} THEN "ensure" ELSE "check_pantry"
    /\ trail' = Append(trail, "parse")
    /\ UNCHANGED <<ingredient, result, recipes, matches,
                   argv, args, stdin, terminal, file, stdout, stderr, status, prompts>>

\* ensure_ingredients with a non-empty pantry: returned as it is, no prompt
EnsureKeep ==
    /\ pc = "ensure"
    /\ pantry # {}
    /\ pc' = "check_pantry"
    /\ trail' = Append(trail, "ensure")
    /\ UNCHANGED <<ingredient, pantry, result, recipes, matches,
                   argv, args, stdin, terminal, file, stdout, stderr, status, prompts>>

\* The prompt of input()
PromptText == "List the ingredients in your fridge (comma separated): "

\* ensure_ingredients with an empty pantry: input() is called once.  It
\* writes the prompt and reads one line of standard input; EOFError returns
\* the empty pantry, a line is parsed as one chunk.  When standard input and
\* standard output are both terminals, input() writes the prompt to standard
\* error; otherwise it writes it to standard output.
EnsurePrompt ==
    /\ pc = "ensure"
    /\ pantry = {}
    /\ prompts' = prompts + 1
    /\ IF terminal
         THEN /\ stderr' = Append(stderr, PromptText)
              /\ UNCHANGED stdout
         ELSE /\ stdout' = Append(stdout, [kind |-> "prompt"])
              /\ UNCHANGED stderr
    /\ pantry' = IF stdin.eof THEN pantry ELSE parse_ingredients(<<stdin.line>>)
    /\ pc' = "check_pantry"
    /\ trail' = Append(Append(trail, "ensure"), "prompt")
    /\ UNCHANGED <<ingredient, result, recipes, matches,
                   argv, args, stdin, terminal, file, status>>

\* if not pantry: parser.error(...), which prints the usage message to
\* standard error and exits with status 2
CheckPantry ==
    /\ pc = "check_pantry"
    /\ trail' = Append(trail, "check_pantry")
    /\ IF pantry = {}
         THEN /\ stderr' = Append(stderr, "usage: No ingredients provided")
              /\ status' = UsageExit
              /\ pc' = "exit"
         ELSE /\ pc' = "check_path"
              /\ UNCHANGED <<stderr, status>>
    /\ UNCHANGED <<ingredient, pantry, result, recipes, matches,
                   argv, args, stdin, terminal, file, stdout, prompts>>

CheckPath_ignores_missing_file ==
    /\ pc = "check_path"
    /\ trail' = Append(trail, "check_path")
    /\ pc' = "load"
    /\ UNCHANGED <<ingredient, pantry, result, recipes, matches,
                   argv, args, stdin, terminal, file, stdout, stderr, status, prompts>>

\* if not recipe_path.exists(): parser.error(...)
CheckPath ==
    /\ pc = "check_path"
    /\ trail' = Append(trail, "check_path")
    /\ IF ~args.recipes_exists
         THEN /\ stderr' = Append(stderr, "usage: Recipe file not found")
              /\ status' = UsageExit
              /\ pc' = "exit"
         ELSE /\ pc' = "load"
              /\ UNCHANGED <<stderr, status>>
    /\ UNCHANGED <<ingredient, pantry, result, recipes, matches,
                   argv, args, stdin, terminal, file, stdout, prompts>>

\* recipes = load_recipes(recipe_path)
Load ==
    /\ pc = "load"
    /\ recipes' = load_recipes(file)
    /\ pc' = "score"
    /\ trail' = Append(trail, "load")
    /\ UNCHANGED <<ingredient, pantry, result, matches,
                   argv, args, stdin, terminal, file, stdout, stderr, status, prompts>>

\* matches = score_recipes(recipes, pantry)
Score ==
    /\ pc = "score"
    /\ matches' = score_recipes(recipes, pantry)
    /\ pc' = "report"
    /\ trail' = Append(trail, "score")
    /\ UNCHANGED <<ingredient, pantry, result, recipes,
                   argv, args, stdin, terminal, file, stdout, stderr, status, prompts>>

\* if not matches: the message goes to standard error, return 1
ReportNoMatches ==
    /\ pc = "report"
    /\ matches = <<>>
    /\ stderr' = Append(stderr, "No balanced recipes found in the collection.")
    /\ status' = EmptyResultExit
    /\ pc' = "exit"
    /\ trail' = Append(trail, "return")
    /\ UNCHANGED <<ingredient, pantry, result, recipes, matches,
                   argv, args, stdin, terminal, file, stdout, prompts>>

\* The suggestion blocks on standard output, in the order printed: as many
\* as the loop over matches[:limit] has made iterations.
Suggestions ==
    LET IsSuggestion(block) == block.kind = "suggestion"
    IN SelectSeq(stdout, IsSuggestion)

\* One iteration of the loop over enumerate(matches[:limit], start=1): the
\* header with the rank and the score to two decimals (in hundredths), then
\* the description of the recipe.
PrintSuggestion ==
    /\ pc = "report"
    /\ matches # <<>>
    /\ LET shown == SubSeq(matches, 1, Min(limit(args.top), Len(matches)))
           rank == Len(Suggestions) + 1
       IN /\ rank <= Len(shown)
          /\ stdout' = Append(stdout,
                 [kind |-> "suggestion", rank |-> rank,
                  score |-> format_2f(shown[rank].score),
                  recipe |-> describe_recipe(shown[rank].recipe, pantry,
                                             args.show_missing)])
    /\ trail' = Append(trail, "print")
    /\ UNCHANGED <<pc, ingredient, pantry, result, recipes, matches,
                   argv, args, stdin, terminal, file, stderr, status, prompts>>

\* The loop is over: return 0
ReturnSuccess ==
    /\ pc = "report"
    /\ matches # <<>>
    /\ Len(Suggestions) + 1 > Len(SubSeq(matches, 1, Min(limit(args.top), Len(matches))))
    /\ status' = SuccessExit
    /\ pc' = "exit"
    /\ trail' = Append(trail, "return")
    /\ UNCHANGED <<ingredient, pantry, result, recipes, matches,
                   argv, args, stdin, terminal, file, stdout, stderr, prompts>>

Next ==
    \/ ParseArgs
    \/ ParseIngredients
    \/ EnsureKeep
    \/ EnsurePrompt
    \/ CheckPantry
    \/ CheckPath
    \/ Load
    \/ Score
    \/ ReportNoMatches
    \/ PrintSuggestion
    \/ ReturnSuccess

Spec == Init /\ [][Next]_vars

\* The messages on standard error, in the order written: what it holds
\* besides the prompt of input().
Messages ==
    LET IsMessage(text) == text # PromptText
    IN SelectSeq(stderr, IsMessage)

\* C5 as stated, for every run: a run ends in one of three outcomes.  The
\* usage-error exit (status 2, through parser.error) happens exactly when
\* the resolved pantry is empty or the recipe path does not exist; the
\* pantry is checked before the path, and both before any recipe is loaded.
\* Status 1, with the message on standard error and no suggestion printed,
\* happens exactly when no recipe passes the filter.  Status 0 happens
\* exactly when at least one suggestion has been printed.
C5_ThreeExitOutcomes ==
    /\ \A k \in 1..Len(trail) :
         /\ trail[k] = "check_path" => \E j \in 1..(k - 1) : trail[j] = "check_pantry"
         /\ trail[k] = "load" => \E j \in 1..(k - 1) : trail[j] = "check_path"
    /\ pc # "exit" => status = "none"
    /\ pc = "exit" =>
         LET steps == {trail[k] : k \in 1..Len(trail)}
             none_balanced ==
                 \A i \in 1..Len(file) : ~is_balanced(from_dict(file[i]))
         IN /\ status \in {UsageExit, EmptyResultExit, SuccessExit}
            /\ status = UsageExit <=> (pantry = {} \/ ~argv.recipes_exists)
            /\ pantry = {} => "check_path" \notin steps
            /\ status = UsageExit =>
                 "load" \notin steps /\ Suggestions = <<>> /\ Len(Messages) = 1
            /\ status = EmptyResultExit <=>
                 (pantry # {} /\ argv.recipes_exists /\ none_balanced)
            /\ status = EmptyResultExit =>
                 /\ Suggestions = <<>>
                 /\ Messages = <<"No balanced recipes found in the collection.">>
            /\ status = SuccessExit <=> Len(Suggestions) >= 1
            /\ status = SuccessExit => Messages = <<>>
            /\ EmptyResultExit # UsageExit

\* C5 amended: the three outcomes are those of the runs in which parse_args
\* returns the namespace.  A run with -h/--help ends with status 0 after
\* the help text, with no suggestion printed; a run whose arguments the
\* parser rejects ends in the usage-error exit whatever the ingredients and
\* the recipe path; both end before the pantry is resolved.  In every other
\* run the usage-error exit happens exactly when the resolved pantry is
\* empty or the recipe path does not exist (pantry checked first, nothing
\* loaded), status 1 with the message on standard error and no suggestion
\* printed exactly when the run reaches the filter and no recipe passes it,
\* and status 0 exactly when at least one suggestion has been printed.
C5_ExitOutcomesOfParsedRuns ==
    /\ \A k \in 1..Len(trail) :
         /\ trail[k] = "check_path" => \E j \in 1..(k - 1) : trail[j] = "check_pantry"
         /\ trail[k] = "load" => \E j \in 1..(k - 1) : trail[j] = "check_path"
    /\ pc # "exit" => status = "none"
    /\ pc = "exit" =>
         LET steps == {trail[k] : k \in 1..Len(trail)}
             none_balanced ==
                 \A i \in 1..Len(file) : ~is_balanced(from_dict(file[i]))
         IN /\ status \in {UsageExit, EmptyResultExit, SuccessExit}
            /\ (argv.help = "first" \/ (argv.top_is_int /\ argv.help = "last")) =>
                 /\ status = SuccessExit
                 /\ stdout = <<[kind |-> "help"]>>
                 /\ Suggestions = <<>>
                 /\ Messages = <<>>
                 /\ trail = <<"parse_args">>
            /\ (argv.help # "first"
                  /\ (~argv.top_is_int \/ (argv.help = "absent" /\ argv.unknown))) =>
                 /\ status = UsageExit
                 /\ Suggestions = <<>>
                 /\ Len(Messages) = 1
                 /\ trail = <<"parse_args">>
            /\ (argv.help = "absent" /\ argv.top_is_int /\ ~argv.unknown) =>
                 /\ args = namespace(argv)
                 /\ status = UsageExit <=> (pantry = {} \/ ~args.recipes_exists)
                 /\ pantry = {} => "check_path" \notin steps
                 /\ status = UsageExit =>
                      "load" \notin steps /\ Suggestions = <<>> /\ Len(Messages) = 1
                 /\ status = EmptyResultExit <=>
                      (pantry # {} /\ args.recipes_exists /\ none_balanced)
                 /\ status = EmptyResultExit =>
                      /\ Suggestions = <<>>
                      /\ Messages = <<"No balanced recipes found in the collection.">>
                 /\ status = SuccessExit <=> Len(Suggestions) >= 1
                 /\ status = SuccessExit => Messages = <<>>
            /\ EmptyResultExit # UsageExit

\* A run on a terminal that asked for the ingredients, with an existing
\* recipe file whose recipes all fail the filter, has ended with status 1:
\* standard error holds the prompt and then the message, and no suggestion
\* was printed.
C5_Witness ==
    /\ pc = "exit"
    /\ parse_args(argv) = "namespace"
    /\ terminal
    /\ status = EmptyResultExit
    /\ pantry # {}
    /\ Len(recipes) = 2
    /\ Suggestions = <<>>
    /\ stderr = <<PromptText, "No balanced recipes found in the collection.">>

\* C6: with a non-empty match list M and --top = t (any integer), the run
\* prints exactly min(max(1, t), |M|) suggestion blocks: the first entries of
\* the ranked list, in rank order, numbered 1, 2, ... without gaps, each
\* with its score to two decimals; at least one block is printed.
C6_PrintsTopSuggestions ==
    LET floor_one == IF args.top < 1 THEN 1 ELSE args.top
        count == IF floor_one < Len(matches) THEN floor_one ELSE Len(matches)
    IN \A printed \in {Suggestions} :
       /\ Len(printed) <= count
       /\ \A k \in 1..Len(printed) :
            /\ printed[k].rank = k
            /\ printed[k].recipe.name = matches[k].recipe.name
            /\ FCmpRat(matches[k].score, Rat(Max(2 * printed[k].score - 1, 0), 200)) >= 0
            /\ FCmpRat(matches[k].score, Rat(2 * printed[k].score + 1, 200)) <= 0
       /\ (pc = "exit" /\ matches # <<>>) =>
            /\ Len(printed) = count
            /\ Len(printed) >= 1

\* A run with --top 2 on the file of two recipes with the same exact score
\* has ended after printing both, the second recipe of the file first.
C6_Witness ==
    /\ pc = "exit"
    /\ args.top = 2
    /\ Len(file) = 2
    /\ Len(matches) = 2
    /\ FLT(matches[2].score, matches[1].score)
    /\ Len(Suggestions) = 2
    /\ Suggestions[1].rank = 1
    /\ Suggestions[1].recipe.name = 2
    /\ Suggestions[2].rank = 2
    /\ Suggestions[2].recipe.name = 1

\* C7: with --interactive the program prompts for an ingredient line before
\* scoring, also when ingredients were given on the command line; and with
\* no ingredient on the command line a run that gets past parse_args issues
\* the prompt exactly once, end of input on it leaving the pantry empty and
\* the run ending in the usage-error exit.
C7_InteractiveForcesPrompt ==
    /\ argv.interactive =>
         \A k \in 1..Len(trail) :
           trail[k] = "score" => \E j \in 1..(k - 1) : trail[j] = "prompt"
    /\ (pc = "exit" /\ parse_args(argv) = "namespace"
          /\ parse_ingredients(argv.ingredients) = {}) =>
         /\ prompts = 1
         /\ stdin.eof => (pantry = {} /\ status = UsageExit)

=============================================================================
